---- MODULE Spec2Model ----
(***************************************************************************)
(* Model of the random-number generator engine (src/src/random_generator.rs)*)
(* RandomGenerator owns one GeneratorConfig and the last generated result.  *)
(* Every pub method is one action; the two rejection-sampling loops of      *)
(* generate_numbers advance one iteration per step, and no other method is  *)
(* enabled while a loop runs (the engine is single-threaded).  drawn holds  *)
(* the loop's last draw (its local num / index), <<>> outside the loops.    *)
(* op and result name the last call and what it returned; stats holds the   *)
(* GeneratorStats the last call returned (<<>> when it was not get_stats);  *)
(* file is the file save_numbers and load_numbers are given.                *)
(* app holds the fields of RandomGeneratorApp (src/src/main.rs) that its    *)
(* update handlers read or write; the engine's own methods leave it alone. *)
(*                                                                          *)
(* i64 / usize are scaled to IntBits bits; arithmetic wraps as in a build   *)
(* without overflow checks.                                                 *)
(***************************************************************************)
EXTENDS Integers, Sequences, FiniteSets, TLC

VARIABLES config, generated_numbers, unique_set, drawn, pc, op, result, stats, file,
          app

vars ==
    <<config, generated_numbers, unique_set, drawn, pc, op, result, stats, file, app>>

----------------------------------------------------------------------------
(* Bounds of the model *)

IntBits == 12

MaxNum == 3

MaxTextLen == 3

----------------------------------------------------------------------------
(* Machine integers *)

TwoW == 2 ^ IntBits

IntMin == 0 - 2 ^ (IntBits - 1)

IntMax == 2 ^ (IntBits - 1) - 1

\* two's complement wrap of a mathematical integer into i64
WrapI64(x) == ((x - IntMin) % TwoW) + IntMin

\* `as usize` of an i64
AsUsize(x) == x % TwoW

----------------------------------------------------------------------------
(* GeneratorConfig *)

Range == "Range"

CustomList == "CustomList"

GeneratorMode == {Range, CustomList}

Ok == "Ok"

InvalidBounds == "InvalidBounds"

TooManyNumbers == "TooManyNumbers"

InvalidInputFormat == "InvalidInputFormat"

EmptyList == "EmptyList"

DefaultConfig ==
    [ lower_bound |-> 0,
      upper_bound |-> 1024,
      num_to_generate |-> 1,
      allow_duplicates |-> FALSE,
      mode |-> Range,
      custom_list |-> <<>>,
      custom_list_input |-> <<>> ]

\* fn get_range_size(&self): (upper_bound - lower_bound + 1) as usize
get_range_size(self) ==
    AsUsize(WrapI64(WrapI64(self.upper_bound - self.lower_bound) + 1))

\* fn validate_config(&self, config): the range size is read from self
validate_config(self, cfg) ==
    IF cfg.mode = Range
    THEN IF cfg.lower_bound > cfg.upper_bound
         THEN InvalidBounds
         ELSE IF ~cfg.allow_duplicates /\ cfg.num_to_generate > get_range_size(self)
              THEN TooManyNumbers
              ELSE Ok
    ELSE IF Len(cfg.custom_list) = 0
         THEN EmptyList
         ELSE IF ~cfg.allow_duplicates /\ cfg.num_to_generate > Len(cfg.custom_list)
              THEN TooManyNumbers
              ELSE Ok

----------------------------------------------------------------------------
(* Custom list text: a text is a sequence of one-character strings *)

Whitespace == {" ", "\t", "\n", "\r"}

\* variant: the semicolon is missing from the character class
Separators_without_semicolon == {","} \cup Whitespace

\* the character class of Regex::new(r"[,\s\n;]+")
Separators == {",", ";"} \cup Whitespace

Digits == {"0", "1", "2", "3", "4", "5", "6", "7", "8", "9"}

DigitValue(ch) ==
    CASE ch = "0" -> 0 [] ch = "1" -> 1 [] ch = "2" -> 2 [] ch = "3" -> 3
      [] ch = "4" -> 4 [] ch = "5" -> 5 [] ch = "6" -> 6 [] ch = "7" -> 7
      [] ch = "8" -> 8 [] ch = "9" -> 9

\* str::trim().is_empty()
trim_is_empty(text) == \A i \in 1..Len(text) : text[i] \in Whitespace

\* Regex::split: the pieces between the separator runs, empty pieces at the
\* two ends included
RECURSIVE regex_split(_, _, _)
regex_split(text, parts, inRun) ==
    IF text = <<>>
    THEN parts
    ELSE IF Head(text) \in Separators
         THEN regex_split(Tail(text),
                          IF inRun THEN parts ELSE Append(parts, <<>>),
                          TRUE)
         ELSE regex_split(Tail(text),
                          [parts EXCEPT ![Len(parts)] = Append(@, Head(text))],
                          FALSE)

RECURSIVE DecimalValue(_, _)
DecimalValue(digits, acc) ==
    IF digits = <<>> THEN acc
    ELSE DecimalValue(Tail(digits), 10 * acc + DigitValue(Head(digits)))

\* str::parse::<i64>(): optional sign, at least one digit, value within i64
parse_i64(tok) ==
    LET signed == tok # <<>> /\ Head(tok) \in {"+", "-"}
        body   == IF signed THEN Tail(tok) ELSE tok
        wellFormed == body # <<>> /\ \A i \in 1..Len(body) : body[i] \in Digits
        magnitude == DecimalValue(body, 0)
        value  == IF tok # <<>> /\ Head(tok) = "-" THEN 0 - magnitude ELSE magnitude
    IN  IF wellFormed /\ value >= IntMin /\ value <= IntMax
        THEN [ok |-> TRUE, val |-> value]
        ELSE [ok |-> FALSE, val |-> 0]

DigitChar(d) ==
    CASE d = 0 -> "0" [] d = 1 -> "1" [] d = 2 -> "2" [] d = 3 -> "3"
      [] d = 4 -> "4" [] d = 5 -> "5" [] d = 6 -> "6" [] d = 7 -> "7"
      [] d = 8 -> "8" [] d = 9 -> "9"

RECURSIVE decimal_digits(_)
decimal_digits(n) ==
    IF n < 10 THEN <<DigitChar(n)>>
    ELSE Append(decimal_digits(n \div 10), DigitChar(n % 10))

\* variant: the sign is not written
to_string_unsigned(num) ==
    IF num < 0 THEN decimal_digits(0 - num) ELSE decimal_digits(num)

\* i64::to_string
to_string(num) ==
    IF num < 0 THEN <<"-">> \o decimal_digits(0 - num) ELSE decimal_digits(num)

\* str::parse::<usize>(): optional plus sign, at least one digit, value
\* within usize
parse_usize(tok) ==
    LET body == IF tok # <<>> /\ Head(tok) = "+" THEN Tail(tok) ELSE tok
        wellFormed == body # <<>> /\ \A i \in 1..Len(body) : body[i] \in Digits
    IN  IF wellFormed /\ DecimalValue(body, 0) < TwoW
        THEN [ok |-> TRUE, val |-> DecimalValue(body, 0)]
        ELSE [ok |-> FALSE, val |-> 0]

RECURSIVE parse_parts(_, _)
parse_parts(parts, numbers) ==
    IF parts = <<>>
    THEN [res |-> Ok, list |-> numbers]
    ELSE IF trim_is_empty(Head(parts))
         THEN parse_parts(Tail(parts), numbers)
         ELSE IF parse_i64(Head(parts)).ok
              THEN parse_parts(Tail(parts), Append(numbers, parse_i64(Head(parts)).val))
              ELSE [res |-> InvalidInputFormat, list |-> <<>>]

\* fn parse_custom_list(&mut self): the result and the custom_list it leaves
parse_custom_list(cfg) ==
    IF trim_is_empty(cfg.custom_list_input)
    THEN [res |-> Ok, list |-> <<>>]
    ELSE LET parsed == parse_parts(regex_split(cfg.custom_list_input, << <<>> >>, FALSE), <<>>)
         IN  IF parsed.res = Ok
             THEN parsed
             ELSE [res |-> InvalidInputFormat, list |-> cfg.custom_list]

----------------------------------------------------------------------------
(* The file of save_numbers / load_numbers: absent, or a text *)

NoFile == [exists |-> FALSE, content |-> <<>>]

FileWith(text) == [exists |-> TRUE, content |-> text]

----------------------------------------------------------------------------
(* Configuration setters *)

Returned(name, r) ==
    /\ op' = name
    /\ result' = r
    /\ stats' = <<>>
    /\ UNCHANGED <<generated_numbers, unique_set, drawn, pc, file, app>>

\* variant: the bound is written before it is checked
set_lower_bound_write_first(lower) ==
    /\ pc = "idle"
    /\ config' = [config EXCEPT !.lower_bound = lower]
    /\ Returned("set_lower_bound",
                IF lower > config.upper_bound THEN InvalidBounds ELSE Ok)

set_lower_bound(lower) ==
    /\ pc = "idle"
    /\ IF lower > config.upper_bound
       THEN /\ UNCHANGED config
            /\ Returned("set_lower_bound", InvalidBounds)
       ELSE /\ config' = [config EXCEPT !.lower_bound = lower]
            /\ Returned("set_lower_bound", Ok)

\* variant: the comparison with lower_bound is missing
set_upper_bound_unchecked(upper) ==
    /\ pc = "idle"
    /\ config' = [config EXCEPT !.upper_bound = upper]
    /\ Returned("set_upper_bound", Ok)

set_upper_bound(upper) ==
    /\ pc = "idle"
    /\ IF upper < config.lower_bound
       THEN /\ UNCHANGED config
            /\ Returned("set_upper_bound", InvalidBounds)
       ELSE /\ config' = [config EXCEPT !.upper_bound = upper]
            /\ Returned("set_upper_bound", Ok)

\* the `match self.config.mode` of set_num_to_generate / set_allow_duplicates
range_size_of_mode(self) ==
    IF self.mode = Range THEN get_range_size(self) ELSE Len(self.custom_list)

set_num_to_generate(num) ==
    /\ pc = "idle"
    /\ IF ~config.allow_duplicates /\ num > range_size_of_mode(config)
       THEN /\ UNCHANGED config
            /\ Returned("set_num_to_generate", TooManyNumbers)
       ELSE /\ config' = [config EXCEPT !.num_to_generate = num]
            /\ Returned("set_num_to_generate", Ok)

set_allow_duplicates(allow) ==
    /\ pc = "idle"
    /\ IF ~allow /\ config.num_to_generate > range_size_of_mode(config)
       THEN /\ UNCHANGED config
            /\ Returned("set_allow_duplicates", TooManyNumbers)
       ELSE /\ config' = [config EXCEPT !.allow_duplicates = allow]
            /\ Returned("set_allow_duplicates", Ok)

\* variant: the mode is rolled back when validation fails
set_mode_rollback(mode) ==
    /\ pc = "idle"
    /\ LET switched == [config EXCEPT !.mode = mode]
           r == validate_config(switched, switched)
       IN  /\ config' = IF r = Ok THEN switched ELSE config
           /\ Returned("set_mode", r)

set_mode(mode) ==
    /\ pc = "idle"
    /\ config' = [config EXCEPT !.mode = mode]
    /\ Returned("set_mode", validate_config(config', config'))

set_custom_list_input(input) ==
    /\ pc = "idle"
    /\ LET stored == [config EXCEPT !.custom_list_input = input]
           parsed == parse_custom_list(stored)
           committed == [stored EXCEPT !.custom_list = parsed.list]
       IN  /\ config' = committed
           /\ Returned("set_custom_list_input",
                       IF parsed.res # Ok THEN parsed.res
                       ELSE validate_config(committed, committed))

----------------------------------------------------------------------------
(* The engine under its six setters *)

BoundInputs == {IntMin, 0 - 100, 0, 1, 2, 100, IntMax}

NumInputs == 0..MaxNum

ListInputs ==
    { <<>>,
      <<"1", ",", "2", ",", "3">>,
      <<"1", ",", "1", ",", "1", ",", "1">>,
      <<" ", "2", ";", "-", "1", "\n">>,
      <<"1", ",", "x">> }

\* RandomGeneratorApp::default(): the fields the update handlers read or write
AppDefault ==
    [ lower_bound |-> to_string(DefaultConfig.lower_bound),
      upper_bound |-> to_string(DefaultConfig.upper_bound),
      num_to_generate |-> to_string(DefaultConfig.num_to_generate),
      error_message |-> "",
      mode |-> DefaultConfig.mode,
      custom_list_input |-> DefaultConfig.custom_list_input ]

Init ==
    /\ config = DefaultConfig
    /\ generated_numbers = <<>>
    /\ unique_set = {}
    /\ drawn = <<>>
    /\ pc = "idle"
    /\ op = "new"
    /\ result = Ok
    /\ stats = <<>>
    /\ file = NoFile
    /\ app = AppDefault

Next ==
    \/ \E v \in BoundInputs : set_lower_bound(v)
    \/ \E v \in BoundInputs : set_upper_bound(v)
    \/ \E n \in NumInputs : set_num_to_generate(n)
    \/ \E b \in BOOLEAN : set_allow_duplicates(b)
    \/ \E m \in GeneratorMode : set_mode(m)
    \/ \E t \in ListInputs : set_custom_list_input(t)

Spec == Init /\ [][Next]_vars

\* the same engine when every call returns Ok (a caller that stops at the
\* first error)
OkNext ==
    \/ \E v \in BoundInputs : set_lower_bound(v) /\ result' = Ok
    \/ \E v \in BoundInputs : set_upper_bound(v) /\ result' = Ok
    \/ \E n \in NumInputs : set_num_to_generate(n) /\ result' = Ok
    \/ \E b \in BOOLEAN : set_allow_duplicates(b) /\ result' = Ok
    \/ \E m \in GeneratorMode : set_mode(m) /\ result' = Ok
    \/ \E t \in ListInputs : set_custom_list_input(t) /\ result' = Ok

OkSpec == Init /\ [][OkNext]_vars

----------------------------------------------------------------------------
(* generate_numbers *)

Pending == "Pending"

\* rng.gen_range(lower..=upper): any value of the range; of a range wider
\* than MaxNum + 2 the model draws the MaxNum + 1 lowest values and the
\* highest one
gen_range(lower, upper) ==
    {v \in {lower + k : k \in 0..MaxNum} \cup {upper} : v <= upper}

\* rng.gen_range(0..list_len), as a position 1..list_len
gen_index(list_len) == 1..list_len

\* Vec::swap
swap(list, i, j) == [list EXCEPT ![i] = list[j], ![j] = list[i]]

\* the draws of one Fisher-Yates pass over a list of n elements: position i
\* (from the last down to the second) draws j in the first i positions
ShuffleDraws(n) == {js \in [2..n -> 1..n] : \A i \in 2..n : js[i] <= i}

RECURSIVE fisher_yates(_, _, _)
fisher_yates(list, i, js) ==
    IF i < 2 THEN list ELSE fisher_yates(swap(list, i, js[i]), i - 1, js)

\* Iterator::take(n).collect()
take(list, n) == SubSeq(list, 1, IF n < Len(list) THEN n ELSE Len(list))

\* HashSet::into_iter().collect(): the elements in an arbitrary order
into_iter(set) ==
    {s \in [1..Cardinality(set) -> set] :
        \A i, j \in 1..Cardinality(set) : i # j => s[i] # s[j]}

\* variant: the loop runs once more than requested (0..=num_to_generate)
generate_range_with_duplicates_inclusive(cfg) ==
    [1..(cfg.num_to_generate + 1) -> gen_range(cfg.lower_bound, cfg.upper_bound)]

\* the results generate_range_with_duplicates can leave
generate_range_with_duplicates(cfg) ==
    [1..cfg.num_to_generate -> gen_range(cfg.lower_bound, cfg.upper_bound)]

\* the results generate_custom_with_duplicates can leave
generate_custom_with_duplicates(cfg) ==
    {[k \in 1..cfg.num_to_generate |-> cfg.custom_list[idx[k]]] :
        idx \in [1..cfg.num_to_generate -> gen_index(Len(cfg.custom_list))]}

\* (lower_bound..=upper_bound).collect()
all_numbers(cfg) ==
    [k \in 1..(cfg.upper_bound - cfg.lower_bound + 1) |-> cfg.lower_bound + k - 1]

\* the results generate_range_by_shuffle can leave
generate_range_by_shuffle(cfg) ==
    {take(fisher_yates(all_numbers(cfg), Len(all_numbers(cfg)), js), cfg.num_to_generate) :
        js \in ShuffleDraws(Len(all_numbers(cfg)))}

\* the results generate_custom_by_shuffle can leave
generate_custom_by_shuffle(cfg) ==
    {take(fisher_yates(cfg.custom_list, Len(cfg.custom_list), js), cfg.num_to_generate) :
        js \in ShuffleDraws(Len(cfg.custom_list))}

\* variant: the shuffle is chosen from half the size on
use_shuffle_from_half(cfg, size) == 2 * cfg.num_to_generate >= size

\* num_to_generate as f64 > size as f64 * 0.5; both conversions are exact
\* below 2^53, far above the counts the model reaches
use_shuffle(cfg, size) == 2 * cfg.num_to_generate > size

\* generate_numbers returns Ok with the result nums
Generated(nums) ==
    /\ generated_numbers' = nums
    /\ unique_set' = {}
    /\ drawn' = <<>>
    /\ pc' = "idle"
    /\ op' = "generate_numbers"
    /\ result' = Ok
    /\ stats' = <<>>
    /\ UNCHANGED <<config, file, app>>

\* generate_numbers enters the `while unique_set.len() < num_to_generate`
\* loop of generate_range_by_set / generate_custom_by_set, or skips it
by_set(loop) ==
    IF 0 < config.num_to_generate
    THEN /\ generated_numbers' = <<>>
         /\ unique_set' = {}
         /\ drawn' = <<>>
         /\ pc' = loop
         /\ op' = "generate_numbers"
         /\ result' = Pending
         /\ stats' = <<>>
         /\ UNCHANGED <<config, file, app>>
    ELSE Generated(<<>>)

\* variant: the previous result is cleared before the configuration is
\* validated
generate_numbers_clear_first ==
    /\ pc = "idle"
    /\ IF validate_config(config, config) # Ok
       THEN /\ generated_numbers' = <<>>
            /\ op' = "generate_numbers"
            /\ result' = validate_config(config, config)
            /\ stats' = <<>>
            /\ UNCHANGED <<config, unique_set, drawn, pc, file, app>>
       ELSE IF config.mode = Range
            THEN IF config.allow_duplicates
                 THEN \E nums \in generate_range_with_duplicates(config) : Generated(nums)
                 ELSE IF use_shuffle(config, get_range_size(config))
                      THEN \E nums \in generate_range_by_shuffle(config) : Generated(nums)
                      ELSE by_set("generate_range_by_set")
            ELSE IF config.allow_duplicates
                 THEN \E nums \in generate_custom_with_duplicates(config) : Generated(nums)
                 ELSE IF use_shuffle(config, Len(config.custom_list))
                      THEN \E nums \in generate_custom_by_shuffle(config) : Generated(nums)
                      ELSE by_set("generate_custom_by_set")

generate_numbers ==
    /\ pc = "idle"
    /\ IF validate_config(config, config) # Ok
       THEN /\ UNCHANGED config
            /\ Returned("generate_numbers", validate_config(config, config))
       ELSE IF config.mode = Range
            THEN IF config.allow_duplicates
                 THEN \E nums \in generate_range_with_duplicates(config) : Generated(nums)
                 ELSE IF use_shuffle(config, get_range_size(config))
                      THEN \E nums \in generate_range_by_shuffle(config) : Generated(nums)
                      ELSE by_set("generate_range_by_set")
            ELSE IF config.allow_duplicates
                 THEN \E nums \in generate_custom_with_duplicates(config) : Generated(nums)
                 ELSE IF use_shuffle(config, Len(config.custom_list))
                      THEN \E nums \in generate_custom_by_shuffle(config) : Generated(nums)
                      ELSE by_set("generate_custom_by_set")

\* one iteration of the loop: draw, insert, and leave the loop with the set
\* exported once it holds num_to_generate values
insert(draw, num) ==
    IF Cardinality(unique_set \cup {num}) < config.num_to_generate
    THEN /\ unique_set' = unique_set \cup {num}
         /\ drawn' = <<draw>>
         /\ UNCHANGED <<config, generated_numbers, pc, op, result, stats, file, app>>
    ELSE \E nums \in into_iter(unique_set \cup {num}) : Generated(nums)

\* the iteration of generate_range_by_set that draws num
range_by_set_draws(num) ==
    /\ pc = "generate_range_by_set"
    /\ num \in gen_range(config.lower_bound, config.upper_bound)
    /\ insert(num, num)

\* the iteration of generate_custom_by_set that draws index
custom_by_set_draws(index) ==
    /\ pc = "generate_custom_by_set"
    /\ index \in gen_index(Len(config.custom_list))
    /\ insert(index, config.custom_list[index])

generate_range_by_set ==
    \E num \in gen_range(config.lower_bound, config.upper_bound) :
        range_by_set_draws(num)

generate_custom_by_set ==
    \E index \in gen_index(Len(config.custom_list)) :
        custom_by_set_draws(index)

----------------------------------------------------------------------------
(* The engine generating from a configuration the setters have left *)

GenBounds == {IntMin, 0, 1, 2, IntMax}

GenTexts ==
    { <<>>,
      <<"1", ",", "2", ",", "3", ",", "4">>,
      <<"1", ",", "2", ",", "2">>,
      <<"1", ",", "1", ",", "1", ",", "1">> }

\* the setters reach every combination of ordered bounds, count, policy,
\* mode and parsed list text: the bound setters do not look at the count,
\* and set_mode and set_custom_list_input commit before they validate
GenInit ==
    /\ \E lower \in GenBounds, upper \in GenBounds, num \in NumInputs,
          allow \in BOOLEAN, mode \in GeneratorMode, text \in GenTexts :
          /\ lower <= upper
          /\ config = [ lower_bound |-> lower,
                        upper_bound |-> upper,
                        num_to_generate |-> num,
                        allow_duplicates |-> allow,
                        mode |-> mode,
                        custom_list |->
                            parse_custom_list([DefaultConfig EXCEPT
                                                 !.custom_list_input = text]).list,
                        custom_list_input |-> text ]
    /\ generated_numbers = <<>>
    /\ unique_set = {}
    /\ drawn = <<>>
    /\ pc = "idle"
    /\ op = "new"
    /\ result = Ok
    /\ stats = <<>>
    /\ file = NoFile
    /\ app = AppDefault

GenNext ==
    \/ generate_numbers
    \/ generate_range_by_set
    \/ generate_custom_by_set

GenSpec == GenInit /\ [][GenNext]_vars

\* an iteration that draws a value the set does not hold yet
draws_new_value ==
    /\ generate_range_by_set \/ generate_custom_by_set
    /\ pc' = "idle" \/ unique_set' # unique_set

\* the loops keep iterating, and the random source is fair: it keeps drawing
\* every value of the universe, so while the set lacks a value of the
\* universe an iteration eventually draws one
LiveSpec == GenInit /\ [][GenNext]_vars /\ WF_vars(draws_new_value)

----------------------------------------------------------------------------
(* clear_numbers, save_numbers, load_numbers, get_stats *)

IoError == "IoError"

\* variant: only the last number is removed
clear_numbers_pop ==
    /\ pc = "idle"
    /\ generated_numbers' = SubSeq(generated_numbers, 1, Len(generated_numbers) - 1)
    /\ op' = "clear_numbers"
    /\ result' = Ok
    /\ stats' = <<>>
    /\ UNCHANGED <<config, unique_set, drawn, pc, file, app>>

clear_numbers ==
    /\ pc = "idle"
    /\ generated_numbers' = <<>>
    /\ op' = "clear_numbers"
    /\ result' = Ok
    /\ stats' = <<>>
    /\ UNCHANGED <<config, unique_set, drawn, pc, file, app>>

\* [String]::join
RECURSIVE join(_, _)
join(strings, sep) ==
    IF strings = <<>> THEN <<>>
    ELSE IF Len(strings) = 1 THEN strings[1]
         ELSE strings[1] \o sep \o join(Tail(strings), sep)

\* variant: the numbers are joined by commas
save_content_comma_joined(numbers) ==
    join([i \in 1..Len(numbers) |-> to_string(numbers[i])], <<",">>)

\* the text save_numbers writes
save_content(numbers) ==
    join([i \in 1..Len(numbers) |-> to_string(numbers[i])], <<"\n">>)

\* str::lines: the pieces ended by "\n" (a "\r" before it removed) and the
\* rest after the last "\n" when it is not empty
RECURSIVE lines(_, _)
lines(content, line) ==
    IF content = <<>>
    THEN IF line = <<>> THEN <<>> ELSE <<line>>
    ELSE IF Head(content) = "\n"
         THEN << IF line # <<>> /\ line[Len(line)] = "\r"
                 THEN SubSeq(line, 1, Len(line) - 1)
                 ELSE line >> \o lines(Tail(content), <<>>)
         ELSE lines(Tail(content), Append(line, Head(content)))

\* str::trim
RECURSIVE trim(_)
trim(text) ==
    IF text = <<>> THEN text
    ELSE IF Head(text) \in Whitespace THEN trim(Tail(text))
         ELSE IF text[Len(text)] \in Whitespace
              THEN trim(SubSeq(text, 1, Len(text) - 1))
              ELSE text

not_blank(line) == ~trim_is_empty(line)

\* the Result<Vec<i64>, _> load_numbers collects from the file's text
parse_lines(content) ==
    LET kept == SelectSeq(lines(content, <<>>), not_blank)
    IN  IF \A i \in 1..Len(kept) : parse_i64(trim(kept[i])).ok
        THEN [ok |-> TRUE,
              numbers |-> [i \in 1..Len(kept) |-> parse_i64(trim(kept[i])).val]]
        ELSE [ok |-> FALSE, numbers |-> <<>>]

\* a call of save_numbers / load_numbers / get_stats returns r
IoReturned(name, r) ==
    /\ op' = name
    /\ result' = r
    /\ stats' = <<>>
    /\ UNCHANGED <<config, unique_set, drawn, pc, app>>

\* variant: the file is written even when there is nothing to save
save_numbers_always_writes(io_ok) ==
    /\ pc = "idle"
    /\ UNCHANGED generated_numbers
    /\ IF io_ok
       THEN /\ file' = FileWith(save_content(generated_numbers))
            /\ IoReturned("save_numbers", Ok)
       ELSE /\ file' \in {file, FileWith(<<>>)}
            /\ IoReturned("save_numbers", IoError)

\* save_numbers; io_ok tells whether fs::write succeeds, and a failed write
\* leaves the file as it was or created empty
save_numbers(io_ok) ==
    /\ pc = "idle"
    /\ UNCHANGED generated_numbers
    /\ IF generated_numbers = <<>>
       THEN /\ UNCHANGED file
            /\ IoReturned("save_numbers", Ok)
       ELSE IF io_ok
            THEN /\ file' = FileWith(save_content(generated_numbers))
                 /\ IoReturned("save_numbers", Ok)
            ELSE /\ file' \in {file, FileWith(<<>>)}
                 /\ IoReturned("save_numbers", IoError)

\* the numbers of the lines before the first one that does not parse
RECURSIVE parsed_prefix(_)
parsed_prefix(kept) ==
    IF kept = <<>> \/ ~parse_i64(trim(Head(kept))).ok THEN <<>>
    ELSE <<parse_i64(trim(Head(kept))).val>> \o parsed_prefix(Tail(kept))

\* variant: the numbers are stored line by line until one does not parse
load_numbers_line_by_line(io_ok) ==
    /\ pc = "idle"
    /\ UNCHANGED file
    /\ IF ~file.exists \/ ~io_ok
       THEN /\ UNCHANGED generated_numbers
            /\ IoReturned("load_numbers", IoError)
       ELSE /\ generated_numbers' =
                   parsed_prefix(SelectSeq(lines(file.content, <<>>), not_blank))
            /\ IoReturned("load_numbers",
                          IF parse_lines(file.content).ok THEN Ok ELSE IoError)

\* load_numbers; io_ok tells whether fs::read_to_string succeeds on a file
\* that exists
load_numbers(io_ok) ==
    /\ pc = "idle"
    /\ UNCHANGED file
    /\ IF ~file.exists \/ ~io_ok
       THEN /\ UNCHANGED generated_numbers
            /\ IoReturned("load_numbers", IoError)
       ELSE IF parse_lines(file.content).ok
            THEN /\ generated_numbers' = parse_lines(file.content).numbers
                 /\ IoReturned("load_numbers", Ok)
            ELSE /\ UNCHANGED generated_numbers
                 /\ IoReturned("load_numbers", IoError)

\* Iterator::min / Iterator::max as Option<i64>: <<>> is None
RECURSIVE iter_min(_)
iter_min(numbers) ==
    IF numbers = <<>> THEN <<>>
    ELSE IF iter_min(Tail(numbers)) = <<>> \/ Head(numbers) <= iter_min(Tail(numbers))[1]
         THEN <<Head(numbers)>>
         ELSE iter_min(Tail(numbers))

RECURSIVE iter_max(_)
iter_max(numbers) ==
    IF numbers = <<>> THEN <<>>
    ELSE IF iter_max(Tail(numbers)) = <<>> \/ Head(numbers) > iter_max(Tail(numbers))[1]
         THEN <<Head(numbers)>>
         ELSE iter_max(Tail(numbers))

\* Iterator::sum::<i64>
RECURSIVE iter_sum(_)
iter_sum(numbers) ==
    IF numbers = <<>> THEN 0
    ELSE WrapI64(Head(numbers) + iter_sum(Tail(numbers)))

\* GeneratorStats; avg is the quotient num / den of the f64 division
GeneratorStats(numbers) ==
    [ count |-> Len(numbers),
      min |-> iter_min(numbers),
      max |-> iter_max(numbers),
      sum |-> iter_sum(numbers),
      avg |-> IF numbers = <<>>
              THEN [num |-> 0, den |-> 1]
              ELSE [num |-> iter_sum(numbers), den |-> Len(numbers)] ]

get_stats ==
    /\ pc = "idle"
    /\ stats' = <<GeneratorStats(generated_numbers)>>
    /\ op' = "get_stats"
    /\ result' = Ok
    /\ UNCHANGED <<config, generated_numbers, unique_set, drawn, pc, file, app>>

----------------------------------------------------------------------------
(* The engine generating, clearing, saving, loading and reading statistics *)

FileBounds ==
    { <<0 - 10, 0 - 9>>, <<IntMax - 1, IntMax>>, <<IntMin, IntMin + 1>> }

FileListTexts == {<<>>, <<"7", ",", "8">>}

\* configurations the setters leave (as in GenInit)
FileConfigs ==
    { [DefaultConfig EXCEPT !.lower_bound = b[1], !.upper_bound = b[2],
                            !.num_to_generate = num, !.allow_duplicates = allow] :
        b \in FileBounds, num \in NumInputs, allow \in BOOLEAN }
    \cup
    { [DefaultConfig EXCEPT !.mode = CustomList,
                            !.custom_list_input = text,
                            !.custom_list =
                                parse_custom_list([DefaultConfig EXCEPT
                                                     !.custom_list_input = text]).list,
                            !.num_to_generate = num, !.allow_duplicates = allow] :
        text \in FileListTexts, num \in NumInputs, allow \in BOOLEAN }

\* what the file holds before the engine touches it
FileInputs ==
    { NoFile,
      FileWith(<<>>),
      FileWith(<<"3", "\n", "7", "\n", "b", "a", "d", "\n">>),
      FileWith(<<"3", "\n", "\n", " ", "7", " ", "\r", "\n", "-", "2">>) }

FileInit ==
    /\ config \in FileConfigs
    /\ generated_numbers = <<>>
    /\ unique_set = {}
    /\ drawn = <<>>
    /\ pc = "idle"
    /\ op = "new"
    /\ result = Ok
    /\ stats = <<>>
    /\ file \in FileInputs
    /\ app = AppDefault

FileNext ==
    \/ generate_numbers
    \/ generate_range_by_set
    \/ generate_custom_by_set
    \/ clear_numbers
    \/ \E io_ok \in BOOLEAN : save_numbers(io_ok)
    \/ \E io_ok \in BOOLEAN : load_numbers(io_ok)
    \/ get_stats

FileSpec == FileInit /\ [][FileNext]_vars

----------------------------------------------------------------------------
(* set_config / with_config, followed by generation *)

\* set_config; with_config(cfg) is this call on the generator new() returns
set_config(cfg) ==
    /\ pc = "idle"
    /\ IF validate_config(config, cfg) # Ok
       THEN /\ UNCHANGED config
            /\ Returned("set_config", validate_config(config, cfg))
       ELSE /\ config' = cfg
            /\ Returned("set_config", Ok)

ConfigBounds == { <<0, 2>>, <<0, 0>>, <<2, 0>> }

ConfigLists == { <<>>, <<7, 8>> }

\* the GeneratorConfig values a caller passes; the fields are public
ConfigInputs ==
    { [ lower_bound |-> b[1],
        upper_bound |-> b[2],
        num_to_generate |-> num,
        allow_duplicates |-> allow,
        mode |-> mode,
        custom_list |-> list,
        custom_list_input |-> <<>> ] :
        b \in ConfigBounds, num \in NumInputs, allow \in BOOLEAN,
        mode \in GeneratorMode, list \in ConfigLists }

ConfigNext ==
    \/ \E cfg \in ConfigInputs : set_config(cfg)
    \/ generate_numbers
    \/ generate_range_by_set
    \/ generate_custom_by_set

ConfigSpec == Init /\ [][ConfigNext]_vars

----------------------------------------------------------------------------
(* The GUI (src/src/main.rs): RandomGeneratorApp::update, one action for   *)
(* each message that writes the engine or a field the engine is fed from.  *)
(* FilenameChanged, ToggleTheme, ShowAbout and CloseAbout write only        *)
(* filename, dark_mode, theme and about_open, which app leaves out; Save   *)
(* writes the file and the message line only and is left out too.  op and  *)
(* result name the last engine method a handler called and what it         *)
(* returned.                                                               *)

\* impl fmt::Display for RandomGeneratorError
Display(e) ==
    CASE e = InvalidBounds ->
           "The lower bound must be less than or equal to the upper bound"
      [] e = TooManyNumbers ->
           "The number of requested numbers exceeds the range size"
      [] e = InvalidInputFormat -> "Invalid input format for custom list"
      [] e = EmptyList -> "Custom list cannot be empty"
      [] e = IoError -> "IO Error"

\* what a setter called on the configuration self leaves and returns
call_set_lower_bound(self, lower) ==
    IF lower > self.upper_bound
    THEN [config |-> self, result |-> InvalidBounds]
    ELSE [config |-> [self EXCEPT !.lower_bound = lower], result |-> Ok]

call_set_upper_bound(self, upper) ==
    IF upper < self.lower_bound
    THEN [config |-> self, result |-> InvalidBounds]
    ELSE [config |-> [self EXCEPT !.upper_bound = upper], result |-> Ok]

call_set_num_to_generate(self, num) ==
    IF ~self.allow_duplicates /\ num > range_size_of_mode(self)
    THEN [config |-> self, result |-> TooManyNumbers]
    ELSE [config |-> [self EXCEPT !.num_to_generate = num], result |-> Ok]

call_set_allow_duplicates(self, allow) ==
    IF ~allow /\ self.num_to_generate > range_size_of_mode(self)
    THEN [config |-> self, result |-> TooManyNumbers]
    ELSE [config |-> [self EXCEPT !.allow_duplicates = allow], result |-> Ok]

call_set_mode(self, mode) ==
    LET switched == [self EXCEPT !.mode = mode]
    IN  [config |-> switched, result |-> validate_config(switched, switched)]

call_set_custom_list_input(self, input) ==
    LET stored == [self EXCEPT !.custom_list_input = input]
        parsed == parse_custom_list(stored)
        committed == [stored EXCEPT !.custom_list = parsed.list]
    IN  [config |-> committed,
         result |-> IF parsed.res # Ok THEN parsed.res
                    ELSE validate_config(committed, committed)]

\* a handler that stores a text field and calls no engine method
FieldChanged(fields) ==
    /\ pc = "idle"
    /\ app' = fields
    /\ UNCHANGED <<config, generated_numbers, unique_set, drawn, pc, op, result,
                   stats, file>>

\* a handler that calls one setter: `if let Err(e) = ... { self.error_message
\* = e.to_string(); }`
Handled(name, call, fields) ==
    /\ pc = "idle"
    /\ config' = call.config
    /\ app' = IF call.result # Ok
              THEN [fields EXCEPT !.error_message = Display(call.result)]
              ELSE fields
    /\ op' = name
    /\ result' = call.result
    /\ UNCHANGED <<generated_numbers, unique_set, drawn, pc, stats, file>>

LowerBoundChanged(value) == FieldChanged([app EXCEPT !.lower_bound = value])

UpperBoundChanged(value) == FieldChanged([app EXCEPT !.upper_bound = value])

NumToGenerateChanged(value) == FieldChanged([app EXCEPT !.num_to_generate = value])

AllowDuplicatesToggled(value) ==
    Handled("set_allow_duplicates", call_set_allow_duplicates(config, value), app)

\* variant: the application's mode follows only a set_mode that returned Ok
ModeChanged_when_accepted(mode) ==
    Handled("set_mode", call_set_mode(config, mode),
            IF call_set_mode(config, mode).result = Ok
            THEN [app EXCEPT !.mode = mode]
            ELSE app)

ModeChanged(mode) ==
    Handled("set_mode", call_set_mode(config, mode), [app EXCEPT !.mode = mode])

CustomListChanged(value) ==
    Handled("set_custom_list_input", call_set_custom_list_input(config, value),
            [app EXCEPT !.custom_list_input = value])

Clear ==
    /\ pc = "idle"
    /\ generated_numbers' = <<>>
    /\ app' = [app EXCEPT !.error_message = ""]
    /\ op' = "clear_numbers"
    /\ result' = Ok
    /\ UNCHANGED <<config, unique_set, drawn, pc, stats, file>>

\* the outcome of the part of Generate that runs before generate_numbers:
\* the configuration it leaves, the error message it sets ("" when every
\* step passed), and the last setter it called with what that returned
Stopped(cfg, message, name, r) ==
    [config |-> cfg, error_message |-> message, op |-> name, result |-> r]

\* `if let Ok(count) = self.num_to_generate.parse()` and set_num_to_generate
generate_count(self, fields) ==
    LET count == parse_usize(fields.num_to_generate)
        set == call_set_num_to_generate(self, count.val)
    IN  IF ~count.ok
        THEN Stopped(self, "Count must be an integer", op, result)
        ELSE IF set.result # Ok
             THEN Stopped(set.config, Display(set.result), "set_num_to_generate", set.result)
             ELSE Stopped(set.config, "", "set_num_to_generate", Ok)

\* `if self.mode == GeneratorMode::Range`: the lower bound, then the upper
\* bound, each parsed and set, returning at the first failure
generate_bounds(self, fields) ==
    LET lower == parse_i64(fields.lower_bound)
        upper == parse_i64(fields.upper_bound)
        low_set == call_set_lower_bound(self, lower.val)
        up_set == call_set_upper_bound(low_set.config, upper.val)
    IN  IF ~lower.ok
        THEN Stopped(self, "Lower bound must be an integer", op, result)
        ELSE IF low_set.result # Ok
             THEN Stopped(low_set.config, Display(low_set.result),
                          "set_lower_bound", low_set.result)
             ELSE IF ~upper.ok
                  THEN Stopped(low_set.config, "Upper bound must be an integer",
                               "set_lower_bound", Ok)
                  ELSE IF up_set.result # Ok
                       THEN Stopped(up_set.config, Display(up_set.result),
                                    "set_upper_bound", up_set.result)
                       ELSE Stopped(up_set.config, "", "set_upper_bound", Ok)

generate_setters(self, fields) ==
    IF fields.mode = Range
    THEN IF generate_bounds(self, fields).error_message # ""
         THEN generate_bounds(self, fields)
         ELSE generate_count(generate_bounds(self, fields).config, fields)
    ELSE generate_count(self, fields)

\* the results generate_numbers can leave at once on the configuration cfg,
\* none when it enters a rejection-sampling loop
generated_at_once(cfg) ==
    IF cfg.mode = Range
    THEN IF cfg.allow_duplicates
         THEN generate_range_with_duplicates(cfg)
         ELSE IF use_shuffle(cfg, get_range_size(cfg))
              THEN generate_range_by_shuffle(cfg)
              ELSE IF cfg.num_to_generate = 0 THEN {<<>>} ELSE {}
    ELSE IF cfg.allow_duplicates
         THEN generate_custom_with_duplicates(cfg)
         ELSE IF use_shuffle(cfg, Len(cfg.custom_list))
              THEN generate_custom_by_shuffle(cfg)
              ELSE IF cfg.num_to_generate = 0 THEN {<<>>} ELSE {}

\* Message::Generate: the error message is cleared, the bounds (in Range
\* mode) and the count are parsed and set, and generate_numbers is called
Generate ==
    /\ pc = "idle"
    /\ UNCHANGED <<stats, file>>
    /\ LET set == generate_setters(config, app)
           valid == validate_config(set.config, set.config)
       IN  /\ config' = set.config
           /\ IF set.error_message # ""
              THEN /\ app' = [app EXCEPT !.error_message = set.error_message]
                   /\ op' = set.op
                   /\ result' = set.result
                   /\ UNCHANGED <<generated_numbers, unique_set, drawn, pc>>
              ELSE /\ op' = "generate_numbers"
                   /\ IF valid # Ok
                      THEN /\ app' = [app EXCEPT !.error_message = Display(valid)]
                           /\ result' = valid
                           /\ UNCHANGED <<generated_numbers, unique_set, drawn, pc>>
                      ELSE /\ app' = [app EXCEPT !.error_message = ""]
                           /\ unique_set' = {}
                           /\ drawn' = <<>>
                           /\ IF generated_at_once(set.config) # {}
                              THEN /\ generated_numbers' \in generated_at_once(set.config)
                                   /\ pc' = "idle"
                                   /\ result' = Ok
                              ELSE /\ generated_numbers' = <<>>
                                   /\ pc' = IF set.config.mode = Range
                                             THEN "generate_range_by_set"
                                             ELSE "generate_custom_by_set"
                                   /\ result' = Pending

\* what the user types into the lower bound, upper bound and count fields
LowerTexts == { <<"2">> }

UpperTexts == { <<"1">>, <<"3">> }

CountTexts == { <<"2">>, <<"x">> }

ListTexts == { <<"7", ",", "8">>, <<"5", ",", "x">> }

GuiNext ==
    \/ \E value \in LowerTexts : LowerBoundChanged(value)
    \/ \E value \in UpperTexts : UpperBoundChanged(value)
    \/ \E value \in CountTexts : NumToGenerateChanged(value)
    \/ \E value \in BOOLEAN : AllowDuplicatesToggled(value)
    \/ \E mode \in GeneratorMode : ModeChanged(mode)
    \/ \E value \in ListTexts : CustomListChanged(value)
    \/ Generate
    \/ generate_range_by_set
    \/ generate_custom_by_set
    \/ Clear

GuiSpec == Init /\ [][GuiNext]_vars

----------------------------------------------------------------------------
(* The calls of tests::test_custom_list_generation, in any order *)

TestListText == <<"1", ",", "2", ",", "3", ",", "4", ",", "5">>

TestNext ==
    \/ set_mode(CustomList)
    \/ set_custom_list_input(TestListText)
    \/ set_num_to_generate(3)
    \/ generate_numbers
    \/ generate_range_by_set
    \/ generate_custom_by_set

TestSpec == Init /\ [][TestNext]_vars

----------------------------------------------------------------------------
(* set_custom_list_input on every short text, after an earlier list *)

ParseAlphabet == {"1", "2", "-", ",", ";", " ", "x"}

Texts == UNION {[1..n -> ParseAlphabet] : n \in 0..MaxTextLen}

PriorTexts == {<<>>, <<"2", ",", "1">>}

\* the generator after new(), set_custom_list_input(prior), set_mode(mode)
ParseInit ==
    /\ \E prior \in PriorTexts, mode \in GeneratorMode :
          config = [DefaultConfig EXCEPT
                      !.custom_list_input = prior,
                      !.custom_list =
                          parse_custom_list([DefaultConfig EXCEPT
                                               !.custom_list_input = prior]).list,
                      !.mode = mode]
    /\ generated_numbers = <<>>
    /\ unique_set = {}
    /\ drawn = <<>>
    /\ pc = "idle"
    /\ op = "set_mode"
    /\ result = validate_config(config, config)
    /\ stats = <<>>
    /\ file = NoFile
    /\ app = AppDefault

\* one further call (the text of a second one is again one of Texts)
ParseNext ==
    \E text \in Texts :
        /\ config.custom_list_input \in PriorTexts
        /\ set_custom_list_input(text)

ParseSpec == ParseInit /\ [][ParseNext]_vars

----------------------------------------------------------------------------
(* Properties *)

\* the number of values of the sampling universe of the active mode
UniverseSize(cfg) ==
    IF cfg.mode = Range
    THEN cfg.upper_bound - cfg.lower_bound + 1
    ELSE Len(cfg.custom_list)

\* the value v belongs to the universe of the active mode
InUniverse(cfg, v) ==
    IF cfg.mode = Range
    THEN cfg.lower_bound <= v /\ v <= cfg.upper_bound
    ELSE \E i \in 1..Len(cfg.custom_list) : cfg.custom_list[i] = v

PairwiseDistinct(list) ==
    \A i, j \in 1..Len(list) : i # j => list[i] # list[j]

\* generate_numbers has returned Ok
GenerateSucceeded == pc = "idle" /\ op = "generate_numbers" /\ result = Ok

\* C1: with duplicates forbidden, a successful generate_numbers leaves
\* exactly num_to_generate pairwise distinct values, each within the bounds
\* (Range) or a member of custom_list (CustomList).
C1_DistinctResult ==
    (GenerateSucceeded /\ ~config.allow_duplicates) =>
        /\ Len(generated_numbers) = config.num_to_generate
        /\ PairwiseDistinct(generated_numbers)
        /\ \A i \in 1..Len(generated_numbers) :
               InUniverse(config, generated_numbers[i])

\* C2: with duplicates allowed, a successful generate_numbers leaves exactly
\* num_to_generate values (none when num_to_generate is 0), each within the
\* bounds (Range) or equal to an element of custom_list (CustomList).
C2_ResultWithDuplicates ==
    (GenerateSucceeded /\ config.allow_duplicates) =>
        /\ Len(generated_numbers) = config.num_to_generate
        /\ \A i \in 1..Len(generated_numbers) :
               InUniverse(config, generated_numbers[i])

C2_Witness ==
    /\ GenerateSucceeded
    /\ config.allow_duplicates
    /\ config.mode = Range
    /\ config.num_to_generate > config.upper_bound - config.lower_bound + 1
    /\ Len(generated_numbers) = MaxNum
    /\ generated_numbers[1] = config.upper_bound

\* C3: generate_numbers always runs to completion: once called on a
\* configuration that passes validation it eventually returns, given a
\* random source that keeps drawing every value of the universe.
C3_GenerateReturns == (pc # "idle") ~> (pc = "idle")

\* C4: after any sequence of setter calls that all returned Ok, a
\* configuration that forbids duplicates never asks for more numbers than
\* the universe of its active mode holds.
C4_CountWithinUniverse ==
    ~config.allow_duplicates => config.num_to_generate <= UniverseSize(config)

C6_FreshBoundsRejected ==
    [][(op = "new" /\ config = DefaultConfig) =>
        /\ set_lower_bound(100) => result' # Ok
        /\ set_upper_bound(0 - 100) => result' # Ok]_vars

\* C7: lower_bound <= upper_bound in every state the six setters reach,
\* whether the calls succeed or fail, in either mode.
C7_BoundsOrdered == config.lower_bound <= config.upper_bound

C7_Witness ==
    /\ op = "set_upper_bound"
    /\ result = InvalidBounds
    /\ config.mode = CustomList
    /\ config.lower_bound > 0

\* C8: set_num_to_generate(n) fails with TooManyNumbers, changing nothing,
\* whenever duplicates are forbidden and n exceeds the universe size of the
\* active mode; in every other case it succeeds and sets num_to_generate.
C8_SetNumToGenerate ==
    [][\A n \in NumInputs :
        set_num_to_generate(n) =>
            IF ~config.allow_duplicates /\ n > UniverseSize(config)
            THEN result' = TooManyNumbers /\ config' = config
            ELSE result' = Ok /\ config' = [config EXCEPT !.num_to_generate = n]]_vars

\* C9: set_allow_duplicates(true) always succeeds; set_allow_duplicates(false)
\* fails with TooManyNumbers exactly when num_to_generate exceeds the
\* universe size of the active mode, and then changes nothing.
C9_SetAllowDuplicates ==
    [][\A b \in BOOLEAN :
        set_allow_duplicates(b) =>
            IF ~b /\ config.num_to_generate > UniverseSize(config)
            THEN result' = TooManyNumbers /\ config' = config
            ELSE result' = Ok /\ config' = [config EXCEPT !.allow_duplicates = b]]_vars

TestModeSet ==
    /\ op = "set_mode" /\ result = Ok
    /\ config = [DefaultConfig EXCEPT !.mode = CustomList]

TestListSet ==
    /\ op = "set_custom_list_input" /\ result = Ok
    /\ config = [DefaultConfig EXCEPT !.mode = CustomList,
                                       !.custom_list = <<1, 2, 3, 4, 5>>,
                                       !.custom_list_input = TestListText]

TestNumSet ==
    /\ op = "set_num_to_generate" /\ result = Ok
    /\ config = [DefaultConfig EXCEPT !.mode = CustomList,
                                       !.custom_list = <<1, 2, 3, 4, 5>>,
                                       !.custom_list_input = TestListText,
                                       !.num_to_generate = 3]

\* C11: on a fresh generator each call of set_mode(CustomList),
\* set_custom_list_input("1,2,3,4,5"), set_num_to_generate(3),
\* generate_numbers returns Ok, and the result holds 3 values between 1 and 5.
C11_CustomListTest ==
    [][/\ (op = "new" /\ config = DefaultConfig /\ set_mode(CustomList))
             => TestModeSet'
       /\ (TestModeSet /\ set_custom_list_input(TestListText)) => TestListSet'
       /\ (TestListSet /\ set_num_to_generate(3)) => TestNumSet'
       /\ (TestNumSet /\ generate_numbers) =>
             /\ result' = Ok
             /\ Len(generated_numbers') = 3
             /\ \A i \in 1..Len(generated_numbers') :
                    generated_numbers'[i] >= 1 /\ generated_numbers'[i] <= 5]_vars

\* C12: a set_custom_list_input that fails, with whatever error, leaves
\* custom_list, custom_list_input and every other field as they were.
C12_ListInputAtomic ==
    [][\A text \in ListInputs :
        (set_custom_list_input(text) /\ result' # Ok) => config' = config]_vars

\* the tokens of a text: its maximal runs of characters that are neither
\* comma, semicolon nor whitespace
TokenBreaks == {",", ";", " ", "\t", "\n", "\r"}

\* the positions where a maximal run of characters outside breaks starts
RunStarts(text, breaks) ==
    {i \in 1..Len(text) :
        text[i] \notin breaks /\ (i = 1 \/ text[i - 1] \in breaks)}

RunAt(text, breaks, n) ==
    LET first == CHOOSE i \in RunStarts(text, breaks) :
                     Cardinality({j \in RunStarts(text, breaks) : j < i}) = n - 1
        last  == CHOOSE j \in first..Len(text) :
                     /\ \A k \in first..j : text[k] \notin breaks
                     /\ j = Len(text) \/ text[j + 1] \in breaks
    IN  SubSeq(text, first, last)

\* the maximal runs of characters outside breaks, in text order
Runs(text, breaks) ==
    [n \in 1..Cardinality(RunStarts(text, breaks)) |-> RunAt(text, breaks, n)]

Tokens(text) == Runs(text, TokenBreaks)

\* the digits of a token without its sign
Unsigned(tok) == IF tok[1] \in {"+", "-"} THEN Tail(tok) ELSE tok

RECURSIVE PlaceValues(_, _)
PlaceValues(digits, k) ==
    IF k > Len(digits) THEN 0
    ELSE DigitValue(digits[k]) * 10 ^ (Len(digits) - k) + PlaceValues(digits, k + 1)

IntegerValue(tok) ==
    IF tok[1] = "-" THEN 0 - PlaceValues(Unsigned(tok), 1)
    ELSE PlaceValues(Unsigned(tok), 1)

\* the token is a decimal integer, with or without a sign, that fits i64
IsSignedInteger(tok) ==
    /\ Len(Unsigned(tok)) >= 1
    /\ \A k \in 1..Len(Unsigned(tok)) : Unsigned(tok)[k] \in Digits
    /\ IntegerValue(tok) >= IntMin
    /\ IntegerValue(tok) <= IntMax

\* C13: set_custom_list_input splits the text on runs of comma, whitespace
\* and semicolon and drops empty tokens; a token that is not a signed
\* integer makes the call fail with InvalidInputFormat and custom_list keep
\* its value; otherwise custom_list becomes the tokens' values in input
\* order, and an empty or whitespace-only text gives an empty list without
\* a parse error.
C13_ParseCustomList ==
    [][op' = "set_custom_list_input" =>
        LET tokens == Tokens(config'.custom_list_input)
        IN  IF \E n \in 1..Len(tokens) : ~IsSignedInteger(tokens[n])
            THEN /\ result' = InvalidInputFormat
                 /\ config'.custom_list = config.custom_list
            ELSE /\ result' # InvalidInputFormat
                 /\ config'.custom_list =
                        [n \in 1..Len(tokens) |-> IntegerValue(tokens[n])]]_vars

C13_Witness ==
    /\ op = "set_custom_list_input"
    /\ result = InvalidInputFormat
    /\ config.custom_list = <<2, 1>>
    /\ Len(Tokens(config.custom_list_input)) = 2

\* generated_numbers holds num_to_generate values of the active universe
FreshResult ==
    /\ Len(generated_numbers) = config.num_to_generate
    /\ \A i \in 1..Len(generated_numbers) : InUniverse(config, generated_numbers[i])

\* C14: generate_numbers validates the configuration first; when validation
\* fails it returns that error and generated_numbers and the configuration
\* are what they were; only when validation passes is the previous result
\* discarded, and what replaces it is a whole new result.
C14_GenerateValidatesFirst ==
    [][/\ generate_numbers =>
            /\ config' = config
            /\ IF validate_config(config, config) # Ok
               THEN /\ result' = validate_config(config, config)
                    /\ generated_numbers' = generated_numbers
               ELSE \/ result' = Pending /\ generated_numbers' = <<>>
                    \/ result' = Ok /\ FreshResult'
       /\ pc # "idle" =>
            /\ config' = config
            /\ \/ result' = Pending /\ generated_numbers' = <<>>
               \/ result' = Ok /\ FreshResult']_vars

\* a failed generate_numbers with the loaded or generated result still there
C14_Witness ==
    /\ op = "generate_numbers"
    /\ result = TooManyNumbers
    /\ generated_numbers # <<>>

\* C15: clear_numbers leaves generated_numbers empty whatever it held,
\* does not fail, and leaves the configuration unchanged.
C15_ClearNumbers ==
    [][clear_numbers =>
        /\ generated_numbers' = <<>>
        /\ result' = Ok
        /\ config' = config]_vars

C15_Witness ==
    /\ op = "clear_numbers"
    /\ result = Ok
    /\ generated_numbers = <<>>
    /\ file.exists

\* C16: save_numbers with an empty generated_numbers returns Ok and leaves
\* the file as it was, present or absent; save_numbers never changes
\* generated_numbers or the configuration.
C16_SaveNothing ==
    [][\A io_ok \in BOOLEAN :
        save_numbers(io_ok) =>
            /\ generated_numbers' = generated_numbers
            /\ config' = config
            /\ generated_numbers = <<>> => result' = Ok /\ file' = file]_vars

\* saving nothing has kept the text the file had
C16_Witness ==
    /\ op = "save_numbers"
    /\ result = Ok
    /\ generated_numbers = <<>>
    /\ file.exists
    /\ file.content # <<>>

\* the number of entries of list equal to v
Occurrences(list, v) == Cardinality({i \in 1..Len(list) : list[i] = v})

SameMultiset(a, b) ==
    \A v \in {a[i] : i \in 1..Len(a)} \cup {b[i] : i \in 1..Len(b)} :
        Occurrences(a, v) = Occurrences(b, v)

\* C17: save_numbers of a non-empty result, then clear_numbers, then
\* load_numbers without an I/O failure ends with the same multiset of
\* integers: the saved file reads back as the saved multiset, clear_numbers
\* does not touch the file, and load_numbers stores what the file reads as.
C17_SaveClearLoad ==
    /\ []((op = "save_numbers" /\ result = Ok /\ generated_numbers # <<>>) =>
            /\ file.exists
            /\ parse_lines(file.content).ok
            /\ SameMultiset(parse_lines(file.content).numbers, generated_numbers))
    /\ [][/\ clear_numbers => file' = file
          /\ (load_numbers(TRUE) /\ file.exists /\ parse_lines(file.content).ok) =>
                /\ result' = Ok
                /\ generated_numbers' = parse_lines(file.content).numbers]_vars

\* a result with a negative number loaded back from the file it was saved to
C17_Witness ==
    /\ op = "load_numbers"
    /\ result = Ok
    /\ generated_numbers # <<>>
    /\ \E i \in 1..Len(generated_numbers) : generated_numbers[i] < 0
    /\ file.content = save_content(generated_numbers)

HasText(line) == \E i \in 1..Len(line) : line[i] \notin Whitespace

\* the line without the whitespace around its text
Strip(line) ==
    LET inked == {i \in 1..Len(line) : line[i] \notin Whitespace}
    IN  SubSeq(line, CHOOSE i \in inked : \A j \in inked : i <= j,
                     CHOOSE i \in inked : \A j \in inked : j <= i)

\* the non-blank lines of the file, in file order
NonBlankLines(content) == SelectSeq(Runs(content, {"\n"}), HasText)

\* C18: load_numbers is all-or-nothing: when the file is read and each of
\* its non-blank lines is a signed integer, generated_numbers becomes those
\* integers in file order; when a non-blank line is not one, or the read
\* fails, the call returns an error and generated_numbers is what it was.
C18_LoadAllOrNothing ==
    [][\A io_ok \in BOOLEAN :
        load_numbers(io_ok) =>
            LET kept == NonBlankLines(file.content)
            IN  IF /\ file.exists
                   /\ io_ok
                   /\ \A n \in 1..Len(kept) : IsSignedInteger(Strip(kept[n]))
                THEN /\ result' = Ok
                     /\ generated_numbers' =
                            [n \in 1..Len(kept) |-> IntegerValue(Strip(kept[n]))]
                ELSE /\ result' # Ok
                     /\ generated_numbers' = generated_numbers]_vars

\* a load that failed on a line and kept the result the engine had
C18_Witness ==
    /\ op = "load_numbers"
    /\ result # Ok
    /\ generated_numbers # <<>>
    /\ file.exists
    /\ ~parse_lines(file.content).ok

\* C19: the error load_numbers returns for a file with a non-integer line
\* is of a kind other than IoError, the kind of a failed read or write.
C19_CorruptFileErrorKind ==
    [][(load_numbers(TRUE) /\ file.exists /\ ~parse_lines(file.content).ok) =>
        result' \notin {Ok, IoError}]_vars

RECURSIVE Sum(_)
Sum(list) == IF list = <<>> THEN 0 ELSE Head(list) + Sum(Tail(list))

\* C20: get_stats changes neither generated_numbers nor the configuration
\* and returns count = the length, min and max = the smallest and the
\* largest element, absent exactly when there is none, sum = the sum of
\* the elements, and avg = 0 when there is none.
C20_GetStats ==
    [][get_stats =>
        /\ generated_numbers' = generated_numbers
        /\ config' = config
        /\ LET numbers == generated_numbers
               elements == {numbers[i] : i \in 1..Len(numbers)}
               st == stats'[1]
           IN  /\ st.count = Len(numbers)
               /\ IF numbers = <<>>
                  THEN st.min = <<>> /\ st.max = <<>> /\ st.avg.num = 0
                  ELSE /\ Len(st.min) = 1 /\ Len(st.max) = 1
                       /\ st.min[1] \in elements /\ st.max[1] \in elements
                       /\ \A v \in elements : st.min[1] <= v /\ v <= st.max[1]
               /\ st.sum = Sum(numbers)]_vars

\* C21: the sum get_stats reports is the exact mathematical sum of the
\* elements of generated_numbers, whatever 64-bit values generate_numbers
\* or load_numbers left there.
C21_SumExact ==
    [][get_stats => stats'[1].sum = Sum(generated_numbers)]_vars

\* the positions of list that the entries of taken come from, one position
\* for each entry
Selections(taken, list) ==
    {f \in [1..Len(taken) -> 1..Len(list)] :
        /\ \A i \in 1..Len(taken) : list[f[i]] = taken[i]
        /\ \A i, j \in 1..Len(taken) : i # j => f[i] # f[j]}

\* taken is num_to_generate leading elements of a permutation of the universe
LeadsPermutation(cfg, taken) ==
    /\ Len(taken) = cfg.num_to_generate
    /\ IF cfg.mode = Range
       THEN /\ PairwiseDistinct(taken)
            /\ \A i \in 1..Len(taken) : InUniverse(cfg, taken[i])
       ELSE Selections(taken, cfg.custom_list) # {}

\* C22: with duplicates forbidden, generate_numbers shuffles and takes
\* exactly when num_to_generate is more than half the universe size, and
\* samples into a set otherwise; the shuffle leaves the first
\* num_to_generate elements of a permutation of the universe, so a request
\* for the whole universe leaves a permutation of it.
C22_ShuffleOrSet ==
    [][(/\ generate_numbers
        /\ validate_config(config, config) = Ok
        /\ ~config.allow_duplicates) =>
            IF 2 * config.num_to_generate > UniverseSize(config)
            THEN /\ pc' = "idle"
                 /\ result' = Ok
                 /\ LeadsPermutation(config, generated_numbers')
            ELSE IF config.num_to_generate > 0
                 THEN /\ result' = Pending
                      /\ pc' = IF config.mode = Range
                                THEN "generate_range_by_set"
                                ELSE "generate_custom_by_set"
                 ELSE generated_numbers' = <<>>]_vars

\* the whole range [0, 2] requested and left in another order
C22_Witness ==
    /\ GenerateSucceeded
    /\ config.mode = Range /\ ~config.allow_duplicates
    /\ config.lower_bound = 0 /\ config.upper_bound = 2
    /\ config.num_to_generate = 3
    /\ generated_numbers = <<2, 0, 1>>

\* what the validation rules say of cfg, read on cfg's own fields: the
\* active mode's first rule, then its count rule
Verdict(cfg) ==
    IF cfg.mode = Range
    THEN IF cfg.lower_bound > cfg.upper_bound THEN InvalidBounds
         ELSE IF ~cfg.allow_duplicates /\ cfg.num_to_generate > UniverseSize(cfg)
              THEN TooManyNumbers
              ELSE Ok
    ELSE IF cfg.custom_list = <<>> THEN EmptyList
         ELSE IF ~cfg.allow_duplicates /\ cfg.num_to_generate > UniverseSize(cfg)
              THEN TooManyNumbers
              ELSE Ok

\* C23: validation reports one error by a fixed priority: in Range mode
\* InvalidBounds before TooManyNumbers with the custom list ignored, in
\* CustomList mode EmptyList before TooManyNumbers with the bounds ignored,
\* and Ok exactly when no rule of the active mode is violated; here for the
\* validation set_config makes of its argument and generate_numbers makes
\* of the current configuration.
C23_ValidationPriority ==
    [][/\ \A cfg \in ConfigInputs : set_config(cfg) => result' = Verdict(cfg)
       /\ generate_numbers =>
            IF Verdict(config) = Ok
            THEN result' \in {Ok, Pending}
            ELSE result' = Verdict(config)]_vars

\* C24: set_config accepts a configuration only when it satisfies the
\* validation rules on its own fields: a generate_numbers that follows a
\* set_config that returned Ok does not fail validation, and a set_config
\* that returns an error leaves the configuration unchanged.
C24_SetConfig ==
    [][/\ (op = "set_config" /\ result = Ok /\ generate_numbers) =>
            result' \in {Ok, Pending}
       /\ \A cfg \in ConfigInputs :
            (set_config(cfg) /\ result' # Ok) => config' = config]_vars

\* C25: whatever generated_numbers holds, empty or not, and whatever the
\* file held, a load_numbers that directly follows a successful
\* save_numbers leaves generated_numbers the same sequence as before the
\* save (which save_numbers itself does not change).
C25_SaveThenLoad ==
    [][\A io_ok \in BOOLEAN :
        (op = "save_numbers" /\ result = Ok /\ load_numbers(io_ok)) =>
            generated_numbers' = generated_numbers]_vars

\* C25 as amended: for a non-empty generated_numbers and whatever the file
\* held, a load_numbers that directly follows a successful save_numbers
\* leaves generated_numbers the same sequence as before the save, and
\* succeeds unless the read fails.
C25_SaveThenLoadNonEmpty ==
    [][\A io_ok \in BOOLEAN :
        (/\ op = "save_numbers" /\ result = Ok
         /\ generated_numbers # <<>>
         /\ load_numbers(io_ok)) =>
            /\ generated_numbers' = generated_numbers
            /\ io_ok => result' = Ok]_vars

\* a result that is not in ascending order, loaded back in its order
C25_Witness ==
    /\ op = "load_numbers"
    /\ result = Ok
    /\ Len(generated_numbers) >= 2
    /\ generated_numbers[1] > generated_numbers[2]
    /\ file = FileWith(save_content(generated_numbers))

\* C26: after any sequence of messages the mode the application shows,
\* RandomGeneratorApp.mode, is the mode of the engine's configuration, also
\* after a ModeChanged whose set_mode returned an error.
C26_ModeInStep == app.mode = config.mode

\* ModeChanged(CustomList) with no list yet: set_mode failed, both switched
C26_Witness ==
    /\ op = "set_mode"
    /\ result = EmptyList
    /\ app.mode = CustomList
    /\ app.error_message = Display(EmptyList)

\* C27: in Range mode a Generate whose fields hold integers lower <= upper
\* and a count that is valid for [lower, upper] under the duplicate policy
\* succeeds, whatever the engine held: the bounds become (lower, upper) and
\* the result is count fresh values within them; and a Generate that is
\* rejected leaves the engine's configuration as it was.
C27_RangeGenerate ==
    [][(Generate /\ app.mode = Range) =>
        LET lower == parse_i64(app.lower_bound)
            upper == parse_i64(app.upper_bound)
            count == parse_usize(app.num_to_generate)
        IN  /\ (/\ lower.ok /\ upper.ok /\ count.ok
                /\ lower.val <= upper.val
                /\ config.allow_duplicates
                     \/ count.val <= upper.val - lower.val + 1) =>
                    /\ app'.error_message = ""
                    /\ config'.lower_bound = lower.val
                    /\ config'.upper_bound = upper.val
                    /\ config'.num_to_generate = count.val
                    /\ IF pc' = "idle" THEN FreshResult' ELSE generated_numbers' = <<>>
            /\ app'.error_message # "" => config' = config]_vars

\* C28: in CustomList mode, when a Generate succeeds (no error message is
\* set) every generated number is a member of the list that the text in
\* the custom-list field denotes; no Generate succeeds on a list whose
\* text has been replaced by one that does not parse.
C28_CustomGenerate ==
    [][(/\ app.mode = CustomList
        /\ Generate \/ generate_custom_by_set
        /\ pc' = "idle"
        /\ app'.error_message = "") =>
            LET tokens == Tokens(app'.custom_list_input)
            IN  /\ \A n \in 1..Len(tokens) : IsSignedInteger(tokens[n])
                /\ \A i \in 1..Len(generated_numbers') :
                     \E n \in 1..Len(tokens) :
                         IntegerValue(tokens[n]) = generated_numbers'[i]]_vars

============================================================================
